---- MODULE Spec2Model ----
(***************************************************************************)
(* State-machine model of the CHIP-8 interpreter core (src/src/cpu.rs) and *)
(* of the driver loop that feeds it (src/src/emulator.rs).                 *)
(*                                                                         *)
(* One step of the machine is one call the driver makes on the CPU:        *)
(* load_rom, update_timers, set_key (key down / key up, from read_input)   *)
(* or perform_cycle.  perform_cycle is fetch followed by execute; execute  *)
(* dispatches to exactly one instruction handler, so there is one action   *)
(* per handler, each modelling fetch + that handler.                       *)
(*                                                                         *)
(* A Rust panic (index out of bounds, arithmetic overflow with overflow    *)
(* checks on, an explicit panic!) ends the process: `panicked` becomes     *)
(* TRUE, the writes made before the panic stay, and no action is enabled   *)
(* afterwards.                                                             *)
(***************************************************************************)
EXTENDS Integers, Sequences, FiniteSets, TLC

(***************************************************************************)
(* Program constants.                                                      *)
(***************************************************************************)
MEM_SIZE == \h1000
ROM_START == \h200
ROM_SIZE == MEM_SIZE - ROM_START
GFX_COLS == 64
GFX_ROWS == 32
FONT_LOC == \h50
FONT_NUM_ROWS == 5
NUM_REGS == 16
NUM_KEYS == 16
STACK_SIZE == 16
GFX_SIZE == GFX_ROWS * GFX_COLS

(***************************************************************************)
(* Bounds of the model: which inputs the driver and the ROM set draw.      *)
(***************************************************************************)
\* The driver presses and releases keys 0 .. MaxKey.
MaxKey == 1
\* The call-chain ROMs nest 0 .. MaxChain calls before their return.
MaxChain == 17

VARIABLES
    opcode,           \* CPU.opcode: the instruction word fetched last
    mem,              \* CPU.mem: [u8; MEM_SIZE]
    regs,             \* CPU.regs: V0..VF
    keys,             \* CPU.keys: TRUE iff the key is pressed
    gfx,              \* CPU.gfx: the display buffer, row-major
    stack,            \* CPU.stack: [u16; 16]
    sp,               \* CPU.sp: u8
    i,                \* CPU.i: the index register, u16
    pc,               \* CPU.pc: u16
    delay_timer,      \* CPU.delay_timer: u8
    sound_timer,      \* CPU.sound_timer: u8
    ignore_keypress,  \* CPU.ignore_keypress: the key-wait latch
    panicked,         \* the process has panicked
    loaded,           \* Emulator::run has called load_rom and entered its loop
    wait_state,       \* history: "idle" once the machine stood at a key-wait
                      \* with no key pressed, "woken" right after a key-wait
                      \* that followed such a stand completed, else "none"
    khist,            \* history, per key: how its presses were consumed
    callsites,        \* history: the calls not yet returned from, oldest first
    odd_target,       \* history: a jump, call or jump-with-offset to an odd
                      \* address has been executed
    ticked,           \* Emulator::run: update_timers was called since the
                      \* last perform_cycle, that is in this loop iteration
    rendered,         \* Emulator::run: the last loop iteration called draw
    canvas,           \* Emulator.canvas: the pixels draw presented last
    before_draw       \* history: when the last cycle was a draw that returned,
                      \* its opcode and the display it started from

cpu == <<opcode, mem, regs, keys, gfx, stack, sp, i, pc, delay_timer,
         sound_timer, ignore_keypress>>
hist == <<wait_state, khist, callsites, odd_target, before_draw>>
driver == <<ticked, rendered, canvas>>
vars == <<cpu, panicked, loaded, hist, driver>>

(***************************************************************************)
(* Fixed-width arithmetic and bit operations on bytes.                     *)
(***************************************************************************)
Byte == 0..255

\* Bit k of v, k = 0 the least significant.
Bit(v, k) == (v \div (2 ^ k)) % 2

\* u8 & u8, u8 | u8, u8 ^ u8, bit by bit.
RECURSIVE BitOp(_, _, _, _)
BitOp(f, a, b, k) ==
    IF k > 7 THEN 0
    ELSE (2 ^ k) * f[Bit(a, k)][Bit(b, k)] + BitOp(f, a, b, k + 1)

AndTable == 0 :> [x \in 0..1 |-> 0] @@ 1 :> [x \in 0..1 |-> x]
OrTable == 0 :> [x \in 0..1 |-> x] @@ 1 :> [x \in 0..1 |-> 1]
XorTable == 0 :> [x \in 0..1 |-> x] @@ 1 :> [x \in 0..1 |-> 1 - x]

u8_and(a, b) == BitOp(AndTable, a, b, 0)
u8_or(a, b) == BitOp(OrTable, a, b, 0)
u8_xor(a, b) == BitOp(XorTable, a, b, 0)

\* u8::wrapping_add, u8::overflowing_add, u8::overflowing_sub, saturating_sub.
wrapping_add(a, b) == (a + b) % 256
overflowing_add(a, b) == [val |-> (a + b) % 256, overflow |-> a + b > 255]
overflowing_sub(a, b) == [val |-> (a - b + 256) % 256, overflow |-> a < b]
\* Faulty variant: the subtraction wraps.
wrapping_sub(a, b) == (a - b + 256) % 256
saturating_sub(a, b) == IF a >= b THEN a - b ELSE 0

(***************************************************************************)
(* Operand selectors of an instruction word.                               *)
(***************************************************************************)
nibble2_usize(op) == (op \div 256) % 16
nibble3_usize(op) == (op \div 16) % 16
lower_4_val(op) == op % 16
lower_8_val(op) == op % 256
\* Faulty variant: the jump target is the low byte of the word.
lower_12_val_low_byte(op) == op % 256
lower_12_val(op) == op % 4096

coords_to_index(x, y) == (y * GFX_COLS) + x
index_to_coords(idx) == [x |-> idx % GFX_COLS, y |-> idx \div GFX_COLS]

(***************************************************************************)
(* The font table and construction.                                        *)
(***************************************************************************)
CHARS ==
    << 240, 144, 144, 144, 240,   32,  96,  32,  32, 112,
       240,  16, 240, 128, 240,  240,  16, 240,  16, 240,
       144, 144, 240,  16,  16,  240, 128, 240,  16, 240,
       240, 128, 240, 144, 240,  240,  16,  32,  64,  64,
       240, 144, 240, 144, 240,  240, 144, 240,  16, 240,
       240, 144, 240, 144, 144,  224, 144, 224, 144, 224,
       240, 128, 128, 128, 240,  224, 144, 144, 144, 224,
       240, 128, 240, 128, 240,  240, 128, 240, 128, 128 >>

load_font(m) ==
    [a \in 0..(MEM_SIZE - 1) |->
        IF a >= FONT_LOC /\ a < FONT_LOC + (FONT_NUM_ROWS * 16)
        THEN CHARS[a - FONT_LOC + 1]
        ELSE m[a]]

(***************************************************************************)
(* CPU::new: the state after construction.                                 *)
(***************************************************************************)
\* The value of before_draw when the last cycle was not a draw.
NoDraw == [op |-> 0]

KeyHist == {"fresh", "consumed", "released", "repressed", "reconsumed"}

Init ==
    /\ opcode = 0
    /\ mem = load_font([a \in 0..(MEM_SIZE - 1) |-> 0])
    /\ regs = [r \in 0..(NUM_REGS - 1) |-> 0]
    /\ keys = [k \in 0..(NUM_KEYS - 1) |-> FALSE]
    /\ gfx = [p \in 0..(GFX_SIZE - 1) |-> FALSE]
    /\ stack = [s \in 0..(STACK_SIZE - 1) |-> 0]
    /\ sp = 0
    /\ i = 0
    /\ pc = ROM_START
    /\ delay_timer = 0
    /\ sound_timer = 0
    /\ ignore_keypress = FALSE
    /\ panicked = FALSE
    /\ loaded = FALSE
    /\ wait_state = "none"
    /\ khist = [k \in 0..(NUM_KEYS - 1) |-> "fresh"]
    /\ callsites = <<>>
    /\ odd_target = FALSE
    /\ ticked = FALSE
    /\ rendered = FALSE
    /\ canvas = {}
    /\ before_draw = NoDraw

(***************************************************************************)
(* fetch and decode.  Fetched is the word fetch would read at pc; decode   *)
(* names the handler execute dispatches it to, tried in the order of the   *)
(* match arms and of the if-chains inside them.                            *)
(***************************************************************************)
FetchOk == pc + 1 < MEM_SIZE
Fetched == (mem[pc] * 256) + mem[pc + 1]

decode_8(op) ==
    IF lower_4_val(op) = 0 THEN "set"
    ELSE IF lower_4_val(op) = 1 THEN "or"
    ELSE IF lower_4_val(op) = 2 THEN "and"
    ELSE IF lower_4_val(op) = 3 THEN "xor"
    ELSE IF lower_4_val(op) = 4 THEN "add"
    ELSE IF lower_4_val(op) = 5 THEN "sub_xy"
    ELSE IF lower_4_val(op) = 6 THEN "right_shift"
    ELSE IF lower_4_val(op) = 7 THEN "sub_yx"
    ELSE IF lower_4_val(op) = 14 THEN "left_shift"
    ELSE "unknown"

decode_E(op) ==
    IF lower_8_val(op) = \h9E THEN "skip_if_key"
    ELSE IF lower_8_val(op) = \hA1 THEN "skip_if_not_key"
    ELSE "unknown"

decode_F(op) ==
    IF lower_8_val(op) = \h07 THEN "get_delay"
    ELSE IF lower_8_val(op) = \h0A THEN "get_key"
    ELSE IF lower_8_val(op) = \h15 THEN "set_delay"
    ELSE IF lower_8_val(op) = \h18 THEN "set_sound"
    ELSE IF lower_8_val(op) = \h1E THEN "add_i"
    ELSE IF lower_8_val(op) = \h29 THEN "get_char"
    ELSE IF lower_8_val(op) = \h33 THEN "store_bcd"
    ELSE IF lower_8_val(op) = \h55 THEN "reg_dump"
    ELSE IF lower_8_val(op) = \h65 THEN "reg_load"
    ELSE "unknown"

decode(op) ==
    IF op = \h00E0 THEN "clear_screen"
    ELSE IF op = \h00EE THEN "subroutine_return"
    ELSE IF op \in \h0000..\h0FFF THEN "jump"
    ELSE IF op \in \h1000..\h1FFF THEN "jump"
    ELSE IF op \in \h2000..\h2FFF THEN "subroutine_call"
    ELSE IF op \in \h3000..\h3FFF THEN "skip_if"
    ELSE IF op \in \h4000..\h4FFF THEN "skip_if_not"
    ELSE IF op \in \h5000..\h5FF0 THEN "skip_if_xy_eq"
    ELSE IF op \in \h6000..\h6FFF THEN "set_immediate"
    ELSE IF op \in \h7000..\h7FFF THEN "add_immediate"
    ELSE IF op \in \h8000..\h8FFF THEN decode_8(op)
    ELSE IF op \in \h9000..\h9FF0 THEN "skip_if_xy_neq"
    ELSE IF op \in \hA000..\hAFFF THEN "set_i_immediate"
    ELSE IF op \in \hB000..\hBFFF THEN "jump_offset"
    ELSE IF op \in \hC000..\hCFFF THEN "set_rand"
    ELSE IF op \in \hD000..\hDFFF THEN "draw_sprite"
    ELSE IF op \in \hE000..\hEFFF THEN decode_E(op)
    ELSE IF op \in \hF000..\hFFFF THEN decode_F(op)
    ELSE "unknown"

(***************************************************************************)
(* Key state as the key-wait sees it.                                      *)
(***************************************************************************)
PressedKeys == {k \in 0..(NUM_KEYS - 1) : keys[k]}
NoKeyPressed == PressedKeys = {}
LowestPressed == CHOOSE k \in PressedKeys : \A j \in PressedKeys : k <= j

AtKeyWait == loaded /\ ~panicked /\ FetchOk /\ decode(Fetched) = "get_key"
AtIdleWait == AtKeyWait /\ NoKeyPressed

(***************************************************************************)
(* History bookkeeping shared by the actions.                              *)
(***************************************************************************)
\* After a cycle: the machine stands idle at a key-wait, or it does not.
WaitAfterCycle == IF AtIdleWait' THEN "idle" ELSE "none"
\* After a driver event: an idle stand is remembered until the next cycle.
WaitAfterEvent == IF AtIdleWait' THEN "idle" ELSE wait_state

HistPlain ==
    /\ khist' = khist
    /\ callsites' = callsites
    /\ odd_target' = odd_target
    /\ wait_state' = WaitAfterCycle

(***************************************************************************)
(* Emulator::run up to its loop: load_rom.  A ROM is the sequence of the   *)
(* 16-bit words of the program file; read_rom pads it with zeros to        *)
(* ROM_SIZE bytes.                                                         *)
(***************************************************************************)
rom_byte(rom, k) ==
    IF (k \div 2) + 1 > Len(rom) THEN 0
    ELSE IF k % 2 = 0 THEN rom[(k \div 2) + 1] \div 256
    ELSE rom[(k \div 2) + 1] % 256

\* Emulator::draw: the canvas is cleared and one rectangle is filled for
\* every set pixel of the display buffer, placed by the pixel's coordinates.
\* The canvas is kept as the set of cells that hold a rectangle.
draw ==
    { index_to_coords(p) : p \in { q \in 0..(GFX_SIZE - 1) : gfx[q] } }

\* Faulty variant: the copy starts at address 0 with zeros below ROM_START.
load_rom_from_zero(rom) ==
    /\ ~loaded
    /\ ~panicked
    /\ mem' = [a \in 0..(MEM_SIZE - 1) |->
                  IF a >= ROM_START /\ a < ROM_START + ROM_SIZE
                  THEN rom_byte(rom, a - ROM_START)
                  ELSE 0]
    /\ loaded' = TRUE
    /\ UNCHANGED <<opcode, regs, keys, gfx, stack, sp, i, pc, delay_timer,
                   sound_timer, ignore_keypress, panicked>>
    /\ canvas' = draw
    /\ UNCHANGED <<ticked, rendered, before_draw>>
    /\ UNCHANGED <<khist, callsites, odd_target>>
    /\ wait_state' = WaitAfterEvent

load_rom(rom) ==
    /\ ~loaded
    /\ ~panicked
    /\ mem' = [a \in 0..(MEM_SIZE - 1) |->
                  IF a >= ROM_START /\ a < ROM_START + ROM_SIZE
                  THEN rom_byte(rom, a - ROM_START)
                  ELSE mem[a]]
    /\ loaded' = TRUE
    /\ UNCHANGED <<opcode, regs, keys, gfx, stack, sp, i, pc, delay_timer,
                   sound_timer, ignore_keypress, panicked>>
    /\ canvas' = draw
    /\ UNCHANGED <<ticked, rendered, before_draw>>
    /\ UNCHANGED <<khist, callsites, odd_target>>
    /\ wait_state' = WaitAfterEvent

(***************************************************************************)
(* The driver loop's calls between cycles: update_timers and read_input.   *)
(***************************************************************************)
\* The driver's test of its 60 Hz accumulator runs once per loop iteration.
tick_due == ~ticked

update_timers ==
    /\ loaded
    /\ ~panicked
    /\ tick_due
    /\ ticked' = TRUE
    /\ UNCHANGED <<rendered, canvas, before_draw>>
    /\ delay_timer' = saturating_sub(delay_timer, 1)
    /\ sound_timer' = saturating_sub(sound_timer, 1)
    /\ UNCHANGED <<opcode, mem, regs, keys, gfx, stack, sp, i, pc,
                   ignore_keypress, panicked, loaded>>
    /\ UNCHANGED <<khist, callsites, odd_target>>
    /\ wait_state' = WaitAfterEvent

set_key(key, state) == [keys EXCEPT ![key] = state]

\* read_input, Event::KeyDown of a mapped key.
key_down(k) ==
    /\ loaded
    /\ ~panicked
    /\ ~keys[k]
    /\ keys' = set_key(k, TRUE)
    /\ UNCHANGED <<opcode, mem, regs, gfx, stack, sp, i, pc, delay_timer,
                   sound_timer, ignore_keypress, panicked, loaded>>
    /\ khist' = [khist EXCEPT ![k] = IF @ = "released" THEN "repressed" ELSE @]
    /\ UNCHANGED <<driver, before_draw>>
    /\ UNCHANGED <<callsites, odd_target>>
    /\ wait_state' = WaitAfterEvent

\* Faulty variant: a key-up leaves the latch as it is.
key_up_latch_kept == ignore_keypress

\* The latch after a key-up event.
key_up_latch == FALSE

\* read_input, Event::KeyUp of a mapped key; a release follows a press.
key_up(k) ==
    /\ loaded
    /\ ~panicked
    /\ keys[k]
    /\ ignore_keypress' = key_up_latch
    /\ keys' = set_key(k, FALSE)
    /\ UNCHANGED <<opcode, mem, regs, gfx, stack, sp, i, pc, delay_timer,
                   sound_timer, panicked, loaded>>
    /\ khist' = [khist EXCEPT ![k] = IF @ = "fresh" THEN "fresh" ELSE "released"]
    /\ UNCHANGED <<driver, before_draw>>
    /\ UNCHANGED <<callsites, odd_target>>
    /\ wait_state' = WaitAfterEvent

(***************************************************************************)
(* perform_cycle.  Exec(name) is fetch plus execute's dispatch to the      *)
(* handler `name`; in a handler, pc is still the address of the            *)
(* instruction and pc + 2 is the program counter fetch left.               *)
(***************************************************************************)
Exec(name) ==
    /\ loaded
    /\ ~panicked
    /\ FetchOk
    /\ decode(Fetched) = name
    /\ opcode' = Fetched
    /\ UNCHANGED <<keys, loaded>>

X == nibble2_usize(Fetched)
Y == nibble3_usize(Fetched)
nibble2_reg == regs[X]
nibble3_reg == regs[Y]

\* fetch panics: mem[pc] or mem[pc + 1] is out of bounds.
fetch_fault ==
    /\ loaded
    /\ ~panicked
    /\ ~FetchOk
    /\ panicked' = TRUE
    /\ UNCHANGED <<cpu, loaded>>
    /\ HistPlain

\* execute panics: "unknown opcode!".
unknown_opcode ==
    /\ Exec("unknown")
    /\ pc' = pc + 2
    /\ panicked' = TRUE
    /\ UNCHANGED <<mem, regs, gfx, stack, sp, i, delay_timer, sound_timer,
                   ignore_keypress>>
    /\ HistPlain

clear_screen ==
    /\ Exec("clear_screen")
    /\ gfx' = [p \in 0..(GFX_SIZE - 1) |-> FALSE]
    /\ pc' = pc + 2
    /\ UNCHANGED <<mem, regs, stack, sp, i, delay_timer, sound_timer,
                   ignore_keypress, panicked>>
    /\ HistPlain

\* Faulty variant: the stack array is one slot longer.
stack_index_off_by_one(idx) == idx <= STACK_SIZE

\* Indexing stack: [u16; 16].
stack_index_ok(idx) == idx < STACK_SIZE

\* sp -= 1 at sp = 0 panics with overflow checks on and wraps to 255
\* without them; stack[255] then panics.
subroutine_return ==
    /\ Exec("subroutine_return")
    /\ UNCHANGED <<mem, regs, gfx, stack, i, delay_timer, sound_timer,
                   ignore_keypress>>
    /\ \E overflow_checks \in BOOLEAN :
          IF sp = 0
          THEN /\ sp' = IF overflow_checks THEN sp ELSE 255
               /\ pc' = pc + 2
               /\ panicked' = TRUE
               /\ callsites' = callsites
          ELSE /\ overflow_checks
               /\ sp' = sp - 1
               /\ pc' = stack[sp - 1]
               /\ panicked' = panicked
               /\ callsites' = SubSeq(callsites, 1, Len(callsites) - 1)
    /\ UNCHANGED <<khist, odd_target>>
    /\ wait_state' = WaitAfterCycle

jump ==
    /\ Exec("jump")
    /\ pc' = lower_12_val(Fetched)
    /\ UNCHANGED <<mem, regs, gfx, stack, sp, i, delay_timer, sound_timer,
                   ignore_keypress, panicked>>
    /\ UNCHANGED <<khist, callsites>>
    /\ odd_target' = (odd_target \/ lower_12_val(Fetched) % 2 = 1)
    /\ wait_state' = WaitAfterCycle

\* Faulty variant: the call pushes its own address.
call_return_address_unfetched == pc

\* The address a call pushes: the program counter fetch left.
call_return_address == pc + 2

subroutine_call ==
    /\ Exec("subroutine_call")
    /\ UNCHANGED <<mem, regs, gfx, i, delay_timer, sound_timer,
                   ignore_keypress>>
    /\ IF stack_index_ok(sp)
       THEN /\ stack' = [stack EXCEPT ![sp] = call_return_address]
            /\ pc' = lower_12_val(Fetched)
            /\ sp' = sp + 1
            /\ panicked' = panicked
            /\ callsites' = Append(callsites, [site |-> pc, depth |-> sp])
            /\ odd_target' = (odd_target \/ lower_12_val(Fetched) % 2 = 1)
       ELSE /\ pc' = pc + 2
            /\ panicked' = TRUE
            /\ UNCHANGED <<stack, sp, callsites, odd_target>>
    /\ khist' = khist
    /\ wait_state' = WaitAfterCycle

\* Faulty variant: a taken skip advances by one byte.
skip_target_by_one(cond) == IF cond THEN (pc + 2) + 1 ELSE pc + 2

\* The program counter after a conditional skip.
skip_target(cond) == IF cond THEN (pc + 2) + 2 ELSE pc + 2

\* Faulty variant: a skip instruction also ticks the delay timer.
SkipOn_ticking(cond) ==
    /\ pc' = skip_target(cond)
    /\ delay_timer' = saturating_sub(delay_timer, 1)
    /\ UNCHANGED <<mem, regs, gfx, stack, sp, i, sound_timer,
                   ignore_keypress, panicked>>
    /\ HistPlain

SkipOn(cond) ==
    /\ pc' = skip_target(cond)
    /\ UNCHANGED <<mem, regs, gfx, stack, sp, i, delay_timer, sound_timer,
                   ignore_keypress, panicked>>
    /\ HistPlain

skip_if == Exec("skip_if") /\ SkipOn(nibble2_reg = lower_8_val(Fetched))
skip_if_not == Exec("skip_if_not") /\ SkipOn(nibble2_reg # lower_8_val(Fetched))
skip_if_xy_eq == Exec("skip_if_xy_eq") /\ SkipOn(nibble2_reg = nibble3_reg)
\* Faulty variant: 9XY0 skips when the registers are equal.
skip_if_xy_neq_inverted == Exec("skip_if_xy_neq") /\ SkipOn(nibble2_reg = nibble3_reg)
skip_if_xy_neq == Exec("skip_if_xy_neq") /\ SkipOn(nibble2_reg # nibble3_reg)

\* Faulty variant: a register write also blanks the display.
SetRegs_blanking(new_regs) ==
    /\ regs' = new_regs
    /\ pc' = pc + 2
    /\ gfx' = [p \in 0..(GFX_SIZE - 1) |-> FALSE]
    /\ UNCHANGED <<mem, stack, sp, i, delay_timer, sound_timer,
                   ignore_keypress, panicked>>
    /\ HistPlain

\* A handler that only writes registers.
SetRegs(new_regs) ==
    /\ regs' = new_regs
    /\ pc' = pc + 2
    /\ UNCHANGED <<mem, gfx, stack, sp, i, delay_timer, sound_timer,
                   ignore_keypress, panicked>>
    /\ HistPlain

set_immediate ==
    Exec("set_immediate") /\ SetRegs([regs EXCEPT ![X] = lower_8_val(Fetched)])
\* Faulty variant: the immediate add reports its carry in VF.
add_immediate_flagged ==
    /\ Exec("add_immediate")
    /\ LET r == overflowing_add(nibble2_reg, lower_8_val(Fetched))
       IN SetRegs([[regs EXCEPT ![15] = IF r.overflow THEN 1 ELSE 0]
                      EXCEPT ![X] = r.val])

add_immediate ==
    /\ Exec("add_immediate")
    /\ SetRegs([regs EXCEPT ![X] = wrapping_add(nibble2_reg, lower_8_val(Fetched))])
set == Exec("set") /\ SetRegs([regs EXCEPT ![X] = nibble3_reg])
or == Exec("or") /\ SetRegs([regs EXCEPT ![X] = u8_or(nibble2_reg, nibble3_reg)])
and == Exec("and") /\ SetRegs([regs EXCEPT ![X] = u8_and(nibble2_reg, nibble3_reg)])
xor == Exec("xor") /\ SetRegs([regs EXCEPT ![X] = u8_xor(nibble2_reg, nibble3_reg)])

\* The flag is written to regs[15] first and the result to regs[X] second.
FlagThenValue(flag, val) == [[regs EXCEPT ![15] = flag] EXCEPT ![X] = val]

bool_as_u8(b) == IF b THEN 1 ELSE 0

add ==
    /\ Exec("add")
    /\ LET r == overflowing_add(nibble2_reg, nibble3_reg)
       IN SetRegs(FlagThenValue(bool_as_u8(r.overflow), r.val))
sub_xy ==
    /\ Exec("sub_xy")
    /\ LET r == overflowing_sub(nibble2_reg, nibble3_reg)
       IN SetRegs(FlagThenValue(bool_as_u8(~r.overflow), r.val))
sub_yx ==
    /\ Exec("sub_yx")
    /\ LET r == overflowing_sub(nibble3_reg, nibble2_reg)
       IN SetRegs(FlagThenValue(bool_as_u8(~r.overflow), r.val))
\* regs[X] >>= 1 and regs[X] <<= 1 read regs[X] after the flag was written.
right_shift ==
    /\ Exec("right_shift")
    /\ LET flagged == [regs EXCEPT ![15] = u8_and(nibble2_reg, 1)]
       IN SetRegs([flagged EXCEPT ![X] = flagged[X] \div 2])
left_shift ==
    /\ Exec("left_shift")
    /\ LET flagged == [regs EXCEPT ![15] = nibble2_reg \div 128]
       IN SetRegs([flagged EXCEPT ![X] = (flagged[X] * 2) % 256])

set_i_immediate ==
    /\ Exec("set_i_immediate")
    /\ i' = lower_12_val(Fetched)
    /\ pc' = pc + 2
    /\ UNCHANGED <<mem, regs, gfx, stack, sp, delay_timer, sound_timer,
                   ignore_keypress, panicked>>
    /\ HistPlain

jump_offset ==
    /\ Exec("jump_offset")
    /\ pc' = lower_12_val(Fetched) + regs[0]
    /\ UNCHANGED <<mem, regs, gfx, stack, sp, i, delay_timer, sound_timer,
                   ignore_keypress, panicked>>
    /\ UNCHANGED <<khist, callsites>>
    /\ odd_target' = (odd_target \/ (lower_12_val(Fetched) + regs[0]) % 2 = 1)
    /\ wait_state' = WaitAfterCycle

\* rng.gen::<u8>(): the bytes the model draws.
RandBytes == {0, \h0F, \hA5, \hFF}

set_rand ==
    /\ Exec("set_rand")
    /\ \E rng_val \in RandBytes :
          SetRegs([regs EXCEPT ![X] = u8_and(rng_val, lower_8_val(Fetched))])

(***************************************************************************)
(* draw_sprite.                                                            *)
(***************************************************************************)
\* The byte b as eight pixels, index 0 the most significant bit.
fetch_sprite_row(b) == [k \in 0..7 |-> Bit(b, 7 - k) = 1]

\* Faulty variant: a pixel past column 63 is written to the start of the
\* same row.
wrapped_i_same_row(gfx_i, k) ==
    LET c == index_to_coords(gfx_i)
    IN coords_to_index((c.x + k) % 64, c.y)

\* The display index the k-th pixel of a row starting at gfx_i is written to.
wrapped_i(gfx_i, k) ==
    LET c == index_to_coords(gfx_i)
        overflowed == (c.x + k) \div 64
    IN coords_to_index((c.x + k) % 64, c.y + overflowed)

\* The loop for i in 0..8 from pixel k on: draw_row[k] is stored at its
\* wrapped index when that index is inside the display.
RECURSIVE set_pixels(_, _, _, _)
set_pixels(g, draw_row, gfx_i, k) ==
    IF k > 7 THEN g
    ELSE set_pixels(IF wrapped_i(gfx_i, k) < GFX_SIZE
                    THEN [g EXCEPT ![wrapped_i(gfx_i, k)] = draw_row[k]]
                    ELSE g,
                    draw_row, gfx_i, k + 1)

\* The rows r .. height - 1 of the loop, from acc: the display and the
\* collision flag so far, and whether reading a sprite row panicked (mem
\* index out of bounds), which ends the loop early.
RECURSIVE draw_rows(_, _, _, _, _)
draw_rows(acc, r, vx, vy, height) ==
    IF r >= height \/ acc.fault THEN acc
    ELSE IF i + r >= MEM_SIZE THEN [acc EXCEPT !.fault = TRUE]
    ELSE
      LET g == acc.gfx
          gfx_i == coords_to_index(vx, vy + r)
          sprite_row == fetch_sprite_row(mem[i + r])
          draw_row == <<sprite_row[0] # g[gfx_i % GFX_SIZE],
                        sprite_row[1] # g[(gfx_i + 1) % GFX_SIZE],
                        sprite_row[2] # g[(gfx_i + 2) % GFX_SIZE],
                        sprite_row[3] # g[(gfx_i + 3) % GFX_SIZE],
                        sprite_row[4] # g[(gfx_i + 4) % GFX_SIZE],
                        sprite_row[5] # g[(gfx_i + 5) % GFX_SIZE],
                        sprite_row[6] # g[(gfx_i + 6) % GFX_SIZE],
                        sprite_row[7] # g[(gfx_i + 7) % GFX_SIZE]>>
          hit == \E k \in 0..7 : ~draw_row[k + 1] /\ sprite_row[k]
      IN draw_rows([gfx |-> set_pixels(g, [k \in 0..7 |-> draw_row[k + 1]], gfx_i, 0),
                    ret |-> acc.ret \/ hit,
                    fault |-> FALSE],
                   r + 1, vx, vy, height)

\* Faulty variant: the draw leaves I after the sprite.
draw_sprite_advancing ==
    /\ Exec("draw_sprite")
    /\ pc' = pc + 2
    /\ UNCHANGED <<mem, stack, sp, delay_timer, sound_timer, ignore_keypress>>
    /\ i' = i + lower_4_val(Fetched)
    /\ LET vx == nibble2_reg
           vy == nibble3_reg
           height == lower_4_val(Fetched)
       IN IF vx > GFX_COLS - 1 \/ vy > GFX_ROWS - 1
          THEN /\ panicked' = TRUE
               /\ UNCHANGED <<gfx, regs>>
          ELSE LET d == draw_rows([gfx |-> gfx, ret |-> FALSE, fault |-> FALSE],
                                   0, vx, vy, height)
               IN /\ gfx' = d.gfx
                  /\ panicked' = d.fault
                  /\ regs' = IF d.fault THEN regs
                             ELSE [regs EXCEPT ![15] = bool_as_u8(d.ret)]
    /\ HistPlain

draw_sprite ==
    /\ Exec("draw_sprite")
    /\ pc' = pc + 2
    /\ UNCHANGED <<mem, stack, sp, i, delay_timer, sound_timer, ignore_keypress>>
    /\ LET vx == nibble2_reg
           vy == nibble3_reg
           height == lower_4_val(Fetched)
       IN IF vx > GFX_COLS - 1 \/ vy > GFX_ROWS - 1
          THEN /\ panicked' = TRUE
               /\ UNCHANGED <<gfx, regs>>
          ELSE LET d == draw_rows([gfx |-> gfx, ret |-> FALSE, fault |-> FALSE],
                                   0, vx, vy, height)
               IN /\ gfx' = d.gfx
                  /\ panicked' = d.fault
                  /\ regs' = IF d.fault THEN regs
                             ELSE [regs EXCEPT ![15] = bool_as_u8(d.ret)]
    /\ HistPlain

(***************************************************************************)
(* Keys, timers, index register, memory transfers.                         *)
(***************************************************************************)
\* keys[VX as usize] panics when VX >= 16.
SkipOnKey(want) ==
    IF nibble2_reg < NUM_KEYS
    THEN SkipOn(keys[nibble2_reg] = want)
    ELSE /\ pc' = pc + 2
         /\ panicked' = TRUE
         /\ UNCHANGED <<mem, regs, gfx, stack, sp, i, delay_timer, sound_timer,
                        ignore_keypress>>
         /\ HistPlain

skip_if_key == Exec("skip_if_key") /\ SkipOnKey(TRUE)
skip_if_not_key == Exec("skip_if_not_key") /\ SkipOnKey(FALSE)

get_delay == Exec("get_delay") /\ SetRegs([regs EXCEPT ![X] = delay_timer])

\* Faulty variant: get_key does not rewind.
get_key_pc_no_rewind(found) == IF found THEN (pc + 2) + 2 ELSE pc + 2

\* The program counter get_key leaves: fetch's pc + 2, rewound by 2, and
\* advanced by 2 again when a key was found.
get_key_pc(found) == IF found THEN ((pc + 2) - 2) + 2 ELSE (pc + 2) - 2

\* Faulty variant: the scan runs from key F down.
last_pressed_key == CHOOSE k \in PressedKeys : \A j \in PressedKeys : k >= j

\* The key the scan for i in 0..keys.len() stops at.
first_pressed_key == LowestPressed

get_key ==
    /\ Exec("get_key")
    /\ UNCHANGED <<mem, gfx, stack, sp, i, delay_timer, sound_timer, panicked>>
    /\ UNCHANGED <<callsites, odd_target>>
    /\ LET found == ~ignore_keypress /\ ~NoKeyPressed
       IN /\ pc' = get_key_pc(found)
          /\ regs' = IF found THEN [regs EXCEPT ![X] = first_pressed_key] ELSE regs
          /\ ignore_keypress' = IF found THEN TRUE ELSE ignore_keypress
          /\ khist' = IF found
                      THEN [khist EXCEPT ![first_pressed_key] =
                               IF @ = "fresh" THEN "consumed"
                               ELSE IF @ = "repressed" THEN "reconsumed"
                               ELSE @]
                      ELSE khist
          /\ wait_state' = IF found /\ wait_state = "idle" THEN "woken"
                           ELSE WaitAfterCycle

set_delay ==
    /\ Exec("set_delay")
    /\ delay_timer' = nibble2_reg
    /\ pc' = pc + 2
    /\ UNCHANGED <<mem, regs, gfx, stack, sp, i, sound_timer, ignore_keypress,
                   panicked>>
    /\ HistPlain

set_sound ==
    /\ Exec("set_sound")
    /\ sound_timer' = nibble2_reg
    /\ pc' = pc + 2
    /\ UNCHANGED <<mem, regs, gfx, stack, sp, i, delay_timer, ignore_keypress,
                   panicked>>
    /\ HistPlain

add_i ==
    /\ Exec("add_i")
    /\ i' = (i + nibble2_reg) % 65536
    /\ pc' = pc + 2
    /\ UNCHANGED <<mem, regs, gfx, stack, sp, delay_timer, sound_timer,
                   ignore_keypress, panicked>>
    /\ HistPlain

\* Faulty variant: the digit is not scaled by the glyph height.
get_char_unscaled ==
    /\ Exec("get_char")
    /\ pc' = pc + 2
    /\ UNCHANGED <<mem, regs, gfx, stack, sp, delay_timer, sound_timer,
                   ignore_keypress, panicked>>
    /\ i' = FONT_LOC + nibble2_reg
    /\ HistPlain

\* VX * 5 is a u8 product: above 255 it panics with overflow checks on and
\* wraps without them.
get_char ==
    /\ Exec("get_char")
    /\ pc' = pc + 2
    /\ UNCHANGED <<mem, regs, gfx, stack, sp, delay_timer, sound_timer,
                   ignore_keypress>>
    /\ \E overflow_checks \in BOOLEAN :
          IF nibble2_reg * FONT_NUM_ROWS > 255
          THEN /\ panicked' = overflow_checks
               /\ i' = IF overflow_checks THEN i
                       ELSE FONT_LOC + ((nibble2_reg * FONT_NUM_ROWS) % 256)
          ELSE /\ overflow_checks
               /\ panicked' = panicked
               /\ i' = FONT_LOC + (nibble2_reg * FONT_NUM_ROWS)
    /\ HistPlain

\* How many of n consecutive cells starting at mem[i] exist: the writes or
\* reads before the first index out of bounds.
cells_in_bounds(n) ==
    IF i + n <= MEM_SIZE THEN n
    ELSE IF i >= MEM_SIZE THEN 0
    ELSE MEM_SIZE - i

\* Faulty variant: the tens digit is not reduced modulo 10.
bcd_digits_unreduced(val) == <<val \div 100, val \div 10, val % 10>>
bcd_digits(val) == <<val \div 100, (val % 100) \div 10, val % 10>>

store_bcd ==
    /\ Exec("store_bcd")
    /\ pc' = pc + 2
    /\ LET digits == bcd_digits(nibble2_reg)
           done == cells_in_bounds(3)
       IN /\ mem' = [a \in 0..(MEM_SIZE - 1) |->
                        IF a >= i /\ a < i + done THEN digits[(a - i) + 1]
                        ELSE mem[a]]
          /\ panicked' = (done < 3)
    /\ UNCHANGED <<regs, gfx, stack, sp, i, delay_timer, sound_timer,
                   ignore_keypress>>
    /\ HistPlain

\* Faulty variant: the dump stops before VX.
reg_dump_exclusive ==
    /\ Exec("reg_dump")
    /\ pc' = pc + 2
    /\ LET done == cells_in_bounds(X)
       IN /\ mem' = [a \in 0..(MEM_SIZE - 1) |->
                        IF a >= i /\ a < i + done THEN regs[a - i] ELSE mem[a]]
          /\ panicked' = (done < X)
    /\ UNCHANGED <<regs, gfx, stack, sp, i, delay_timer, sound_timer,
                   ignore_keypress>>
    /\ HistPlain

reg_dump ==
    /\ Exec("reg_dump")
    /\ pc' = pc + 2
    /\ LET done == cells_in_bounds(X + 1)
       IN /\ mem' = [a \in 0..(MEM_SIZE - 1) |->
                        IF a >= i /\ a < i + done THEN regs[a - i] ELSE mem[a]]
          /\ panicked' = (done < X + 1)
    /\ UNCHANGED <<regs, gfx, stack, sp, i, delay_timer, sound_timer,
                   ignore_keypress>>
    /\ HistPlain

reg_load ==
    /\ Exec("reg_load")
    /\ pc' = pc + 2
    /\ LET done == cells_in_bounds(X + 1)
       IN /\ regs' = [r \in 0..(NUM_REGS - 1) |->
                         IF r < done THEN mem[i + r] ELSE regs[r]]
          /\ panicked' = (done < X + 1)
    /\ UNCHANGED <<mem, gfx, stack, sp, i, delay_timer, sound_timer,
                   ignore_keypress>>
    /\ HistPlain

\* execute: exactly one handler runs.
perform_cycle ==
    \/ fetch_fault
    \/ unknown_opcode
    \/ clear_screen
    \/ subroutine_return
    \/ jump
    \/ subroutine_call
    \/ skip_if
    \/ skip_if_not
    \/ skip_if_xy_eq
    \/ set_immediate
    \/ add_immediate
    \/ set
    \/ or
    \/ and
    \/ xor
    \/ add
    \/ sub_xy
    \/ right_shift
    \/ sub_yx
    \/ left_shift
    \/ skip_if_xy_neq
    \/ set_i_immediate
    \/ jump_offset
    \/ set_rand
    \/ draw_sprite
    \/ skip_if_key
    \/ skip_if_not_key
    \/ get_delay
    \/ get_key
    \/ set_delay
    \/ set_sound
    \/ add_i
    \/ get_char
    \/ store_bcd
    \/ reg_dump
    \/ reg_load

\* Faulty variant: the test looks at the opcode's last nibble.
just_drew_last_nibble == (opcode % 16) = 13

\* CPU::just_drew: the opcode's first nibble is D.
just_drew == (opcode \div 4096) = 13

\* The rest of the loop iteration after perform_cycle returned: draw is
\* called when just_drew; the next iteration tests the timer accumulator
\* again.  A panic in perform_cycle ends the loop before that.
AfterCycle ==
    /\ ticked' = FALSE
    /\ rendered' = (~panicked' /\ just_drew')
    /\ canvas' = IF ~panicked' /\ just_drew' THEN draw' ELSE canvas
    /\ before_draw' = IF ~panicked' /\ just_drew'
                      THEN [op |-> opcode', gfx |-> gfx]
                      ELSE NoDraw

\* One pass of the loop of Emulator::run from perform_cycle on.
run_cycle ==
    \/ fetch_fault /\ AfterCycle
    \/ unknown_opcode /\ AfterCycle
    \/ clear_screen /\ AfterCycle
    \/ subroutine_return /\ AfterCycle
    \/ jump /\ AfterCycle
    \/ subroutine_call /\ AfterCycle
    \/ skip_if /\ AfterCycle
    \/ skip_if_not /\ AfterCycle
    \/ skip_if_xy_eq /\ AfterCycle
    \/ set_immediate /\ AfterCycle
    \/ add_immediate /\ AfterCycle
    \/ set /\ AfterCycle
    \/ or /\ AfterCycle
    \/ and /\ AfterCycle
    \/ xor /\ AfterCycle
    \/ add /\ AfterCycle
    \/ sub_xy /\ AfterCycle
    \/ right_shift /\ AfterCycle
    \/ sub_yx /\ AfterCycle
    \/ left_shift /\ AfterCycle
    \/ skip_if_xy_neq /\ AfterCycle
    \/ set_i_immediate /\ AfterCycle
    \/ jump_offset /\ AfterCycle
    \/ set_rand /\ AfterCycle
    \/ draw_sprite /\ AfterCycle
    \/ skip_if_key /\ AfterCycle
    \/ skip_if_not_key /\ AfterCycle
    \/ get_delay /\ AfterCycle
    \/ get_key /\ AfterCycle
    \/ set_delay /\ AfterCycle
    \/ set_sound /\ AfterCycle
    \/ add_i /\ AfterCycle
    \/ get_char /\ AfterCycle
    \/ store_bcd /\ AfterCycle
    \/ reg_dump /\ AfterCycle
    \/ reg_load /\ AfterCycle

(***************************************************************************)
(* The ROMs the model loads.                                               *)
(***************************************************************************)
\* One program through every instruction handler; it ends in a key-wait
\* followed by a word no handler matches.
TourRom ==
    << \h00E0, \h6006, \h6107, \h3000, \h4006, \h5010, \h9000, \h7001,
       \h8100, \h8101, \h8102, \h8103, \h8104, \h8105, \h8106, \h8107,
       \h810E, \h6203, \hF215, \hF218, \hF307, \hA300, \hF21E, \hF229,
       \hA300, \hF233, \hF255, \hF265, \hA050, \hD235, \h6400, \hE49E,
       \h6400, \hE4A1, \h6400, \h2250, \hB243, \h1252, \h0000, \h0000,
       \h00EE, \hC1FF, \hF50A, \h8008 >>

\* Programs that end in a panic: an unknown word, a fetch past memory.
CoverRoms == {TourRom, <<\h8008>>, <<\h1FFF>>}

\* Two key-waits in a loop.
KeyRoms ==
    { <<\hF00A + (256 * x), \hF10A, \h1200>> : x \in {0, 15} }

\* n nested subroutines: subroutine k is a call of subroutine k + 1 followed
\* by a return, the innermost is a return alone.  Every return but the last
\* runs with a call to return from; the last runs with the stack empty.
Chain(n) ==
    [k \in 1..((2 * n) + 1) |->
        IF k % 2 = 1 /\ k < (2 * n) + 1 THEN \h2200 + (2 * (k + 1)) ELSE \h00EE]

\* A call in the last two bytes of memory, reached by a jump.
FarCallRom ==
    [k \in 1..(ROM_SIZE \div 2) |->
        IF k = 1 THEN \h1FFE
        ELSE IF k = 3 THEN \h00EE
        ELSE IF k = ROM_SIZE \div 2 THEN \h2204
        ELSE 0]

CallRoms ==
    {Chain(n) : n \in 0..MaxChain} \cup {<<\h2200>>, <<\h2203>>, FarCallRom}

\* Jumps to odd addresses and past the end of memory.
JumpRoms ==
    { <<\h1201>>, <<\h0201>>, <<\h60FF, \hBFFF>>, <<\h6001, \hB300>>,
      <<\h6001, \h3001, \h1201, \h1300>> }

\* The delay timer set to 1 and the sound timer set to 3, then a jump to
\* itself: ticks find one timer at 0 while the other is positive.
TimerRoms == { <<\h6001, \hF015, \h6103, \hF118, \h1208>> }

RomsMain == CoverRoms \cup KeyRoms \cup CallRoms \cup JumpRoms \cup TimerRoms

\* Two registers set to chosen bytes, then one 8XYN instruction.
AluRegs == {0, 1, 15}
AluVals == {0, 1, 2, 3, 127, 128, 255}
AluOps == {4, 5, 6, 7, 14}
AluRoms ==
    { <<\h6000 + (256 * x) + a, \h6000 + (256 * y) + b,
        \h8000 + (256 * x) + (16 * y) + n>> :
        x \in AluRegs, y \in AluRegs, a \in AluVals, b \in AluVals, n \in AluOps }

\* One register set to a chosen byte, then a chosen byte added to it.
ImmRoms ==
    { <<\h6000 + (256 * x) + a, \h7000 + (256 * x) + b>> :
        x \in AluRegs, a \in AluVals, b \in AluVals }

RomsALU == CoverRoms \cup AluRoms \cup ImmRoms

\* Two registers set to an origin, I set to a sprite of rows FF, 81, ...
\* held after the program, then the sprite drawn twice at that origin.
DrawXs == {0, 60, 63, 64}
DrawYs == {0, 31, 32}
DrawHeights == {0, 1, 2, 15}
DrawRom(vx, vy, n) ==
    << \h6000 + vx, \h6100 + vy, \hA20A, \hD010 + n, \hD010 + n,
       \hFF81, \hFF81, \hFF81, \hFF81, \hFF81, \hFF81, \hFF81, \hFF81 >>
DrawRoms == { DrawRom(vx, vy, n) : vx \in DrawXs, vy \in DrawYs, n \in DrawHeights }

\* A row of eight pixels drawn at (0, 0), then the sprite drawn at the
\* bottom row, then a jump to itself.
EdgeRoms ==
    { << \h6000, \h6100, \hA210, \hD011, \h6000 + vx, \h611F, \hD010 + n,
         \h120E, \hFFFF >> : vx \in {0, 60}, n \in {1, 2} }

\* Three rows drawn at a first origin, then the same draw instruction twice
\* in a row at a second origin, over or away from those rows, then a jump to
\* itself; the sprite rows follow.
TwiceOrigins == { <<0, 0>>, <<60, 30>> }
TwiceXs == {0, 57, 60, 63}
TwiceYs == {0, 30, 31}
TwiceHeights == {1, 2, 15}
TwiceRoms ==
    { << \h6000 + o[1], \h6100 + o[2], \hA212, \hD013,
         \h6200 + vx, \h6300 + vy, \hD230 + n, \hD230 + n, \h1210,
         \hFF81, \hA55A, \h3CC3, \hFF81, \hA55A, \h3CC3, \hFF81, \h18E7 >> :
      o \in TwiceOrigins, vx \in TwiceXs, vy \in TwiceYs, n \in TwiceHeights }

\* Two sprite rows drawn, then the display cleared, then a jump to itself.
ClearRoms ==
    { << \h6000 + vx, \h6100 + vy, \hA20C, \hD012, \h00E0, \h120A, \hFF81 >> :
      vx \in {0, 60}, vy \in {0, 31} }

RomsDraw == CoverRoms \cup DrawRoms \cup EdgeRoms \cup TwiceRoms \cup ClearRoms

\* One word that no instruction pattern of the CHIP-8 set matches.
UnknownWords ==
    { \h8008, \h801F, \h5001, \h5011, \h5FF1, \h9001, \h9011, \h9FFF,
      \hE000, \hE1A0, \hF000, \hF1FF }
UnknownRoms == { <<\h6005, \h6105, w>> : w \in UnknownWords }

\* One word of the family 0x0NNN.
ZeroWords == { \h0000, \h00E1, \h00ED, \h00EF, \h0203, \h0204, \h0FFF }
ZeroRoms == { <<\h6005, \hA123, w, \h0000, \h1206>> : w \in ZeroWords }

\* Two registers set to chosen bytes, then one conditional skip.
SkipVals == {0, 1, 255}
SkipWords ==
    { \h3000 + nn : nn \in SkipVals } \cup { \h4000 + nn : nn \in SkipVals }
        \cup { \h5010, \h9010, \h5100, \h9100 }
SkipRoms ==
    { <<\h6000 + a, \h6100 + b, w>> : a \in SkipVals, b \in SkipVals, w \in SkipWords }

\* A register set to a byte, I set to an address, then the BCD store.
BcdVals == 0..255
BcdAddrs == { \h300, \hFFD, \hFFE }
BcdRoms ==
    { <<\h6000 + v, \hA000 + a, \hF033>> : v \in BcdVals, a \in BcdAddrs }

\* V0, V1, V2 and VF set to distinct bytes and I set to an address, then
\* either a dump followed by a load with the same X, or a load alone.
DumpXs == {0, 1, 2, 15}
DumpAddrs == { \h050, \h300, \hFF0, \hFFE }
DumpRoms ==
    { <<\h6011, \h6122, \h6233, \h6F44, \hA000 + a,
        \hF055 + (256 * x), \hF065 + (256 * x)>> : x \in DumpXs, a \in DumpAddrs }
        \cup
    { <<\h6011, \h6122, \h6233, \h6F44, \hA000 + a,
        \hF065 + (256 * x)>> : x \in DumpXs, a \in DumpAddrs }

\* A register set to a hex digit, or to a byte whose product with the glyph
\* height does or does not fit a byte, then the character lookup.
CharXs == {0, 5}
CharVals == (0..15) \cup {51, 52, 255}
CharRoms ==
    { <<\h6000 + (256 * x) + d, \hF029 + (256 * x)>> : x \in CharXs, d \in CharVals }

RomsOps ==
    CoverRoms \cup UnknownRoms \cup ZeroRoms \cup SkipRoms \cup BcdRoms
        \cup DumpRoms \cup CharRoms

(***************************************************************************)
(* Specifications.                                                         *)
(***************************************************************************)
LoadMain == \E rom \in RomsMain : load_rom(rom)
LoadALU == \E rom \in RomsALU : load_rom(rom)
KeyDown == \E k \in 0..MaxKey : key_down(k)
KeyUp == \E k \in 0..MaxKey : key_up(k)

\* The emulator: the driver loop with its key events and timer ticks.
Next ==
    \/ LoadMain
    \/ update_timers
    \/ KeyDown
    \/ KeyUp
    \/ run_cycle

Spec == Init /\ [][Next]_vars

\* The CPU run on the ALU programs with no key events and no timer ticks.
NextALU ==
    \/ LoadALU
    \/ run_cycle

SpecALU == Init /\ [][NextALU]_vars

LoadDraw == \E rom \in RomsDraw : load_rom(rom)

\* The CPU run on the drawing programs with no key events and no timer ticks.
NextDraw ==
    \/ LoadDraw
    \/ run_cycle

SpecDraw == Init /\ [][NextDraw]_vars

LoadOps == \E rom \in RomsOps : load_rom(rom)

\* The CPU run on the single-instruction programs with no key events and no
\* timer ticks.
NextOps ==
    \/ LoadOps
    \/ run_cycle

SpecOps == Init /\ [][NextOps]_vars

TypeOK ==
    /\ opcode \in 0..65535
    /\ \A a \in 0..(MEM_SIZE - 1) : mem[a] \in Byte
    /\ \A r \in 0..(NUM_REGS - 1) : regs[r] \in Byte
    /\ \A s \in 0..(STACK_SIZE - 1) : stack[s] \in 0..65535
    /\ sp \in Byte
    /\ i \in 0..65535
    /\ pc \in 0..65535
    /\ delay_timer \in Byte
    /\ sound_timer \in Byte
    /\ ignore_keypress \in BOOLEAN
    /\ \A k \in 0..(NUM_KEYS - 1) : khist[k] \in KeyHist

(***************************************************************************)
(* The key-wait instruction FX0A.                                          *)
(***************************************************************************)
\* C1: while pc is at a key-wait instruction and no key is pressed, every
\* perform_cycle leaves pc at that instruction and leaves the registers, the
\* index register, the stack and its pointer, memory, the display, both
\* timers and the ignore-keypress latch unchanged.
C1_IdleKeyWaitHolds ==
    [][(AtIdleWait /\ perform_cycle) =>
          /\ pc' = pc
          /\ UNCHANGED <<regs, i, stack, sp, mem, gfx, delay_timer,
                         sound_timer, ignore_keypress>>]_vars

\* A key-wait has just run with no key pressed and the machine still stands
\* at it.
C1_Witness == AtIdleWait /\ opcode = Fetched /\ wait_state = "idle"

\* C2: from a stand at a key-wait with no key pressed, once keys are
\* pressed the very next perform_cycle moves pc past the key-wait and stores
\* the lowest pressed key index in VX.
C2_PressCompletesWait ==
    [][(AtKeyWait /\ wait_state = "idle" /\ ~NoKeyPressed /\ perform_cycle) =>
          /\ pc' = pc + 2
          /\ regs'[X] = LowestPressed]_vars

\* A key-wait that stood idle completed with keys 0 and 1 both pressed and
\* stored 0.
C2_Witness ==
    /\ wait_state = "woken"
    /\ decode(opcode) = "get_key"
    /\ keys[0] /\ keys[1]
    /\ regs[nibble2_usize(opcode)] = 0

\* C3: a key-wait never completes with a key whose current press an earlier
\* key-wait already consumed: the key has to be released first.
C3_EdgeTriggered ==
    [][(get_key /\ pc' = pc + 2) =>
          khist[LowestPressed] \notin {"consumed", "reconsumed"}]_vars

\* C4: a key that was consumed, released and pressed again, and is the only
\* pressed key, completes the next key-wait on its first cycle and is stored
\* in VX.
C4_RearmedKeyCompletes ==
    [][\A k \in 0..(NUM_KEYS - 1) :
          (AtKeyWait /\ PressedKeys = {k} /\ khist[k] = "repressed" /\ perform_cycle)
             => (pc' = pc + 2 /\ regs'[X] = k /\ khist'[k] = "reconsumed")]_vars

\* Key 0 was consumed, released, pressed again and consumed again.
C4_Witness ==
    /\ khist[0] = "reconsumed"
    /\ decode(opcode) = "get_key"
    /\ regs[nibble2_usize(opcode)] = 0

(***************************************************************************)
(* Call and return.                                                        *)
(***************************************************************************)
\* C5: a return that completes resumes at the address of the matching call
\* plus 2 and restores the stack pointer to its value before that call; the
\* matching call is the most recent one not yet returned from.
C5_CallReturnRoundTrip ==
    [][(subroutine_return /\ ~panicked') =>
          /\ callsites # <<>>
          /\ pc' = callsites[Len(callsites)].site + 2
          /\ sp' = callsites[Len(callsites)].depth]_vars

\* The return from the sixteenth nested call has run.
C5_Witness ==
    /\ opcode = \h00EE
    /\ ~panicked
    /\ sp = STACK_SIZE - 1
    /\ Len(callsites) = STACK_SIZE - 1

\* C6 as stated: the program counter is even in every reachable state.
C6_PcAlwaysEven == pc % 2 = 0

\* C6 amended: the program counter is even in every reachable state of a run
\* that has executed no jump, call or jump-with-offset to an odd address.
C6_PcEvenUnlessOddTarget == odd_target \/ pc % 2 = 0

\* A jump-with-offset to an even address has run, after skips and a call and
\* return, and no odd target was executed.
C6_Witness ==
    /\ ~odd_target
    /\ ~panicked
    /\ decode(opcode) = "jump_offset"
    /\ regs[0] # 0

\* C7: while the machine runs, the stack pointer is in 0..16.  A call at
\* depth 16 panics on the stack index and leaves sp at 16; a return at depth
\* 0 panics on the subtraction with overflow checks on and, without them, on
\* the stack index after sp wrapped to 255, in a process that is ending.
C7_SpInRange == ~panicked => sp \in 0..STACK_SIZE

\* Sixteen calls are nested and the machine runs.
C7_Witness == ~panicked /\ sp = STACK_SIZE /\ Len(callsites) = STACK_SIZE

(***************************************************************************)
(* Flags of the 8XYN instructions.                                         *)
(***************************************************************************)
FlagHandlers ==
    {"add", "sub_xy", "sub_yx", "right_shift", "left_shift", "draw_sprite"}

\* C8: right after an add, subtract, shift or draw instruction, VF is 0 or 1.
C8_FlagIsBit ==
    (loaded /\ ~panicked /\ decode(opcode) \in FlagHandlers) => regs[15] \in {0, 1}

\* C9: 8XY4 leaves VX = (VX + VY) mod 256 and VF = 1 iff VX + VY > 255,
\* else 0, on the values before the instruction.
C9_AddSumAndCarry ==
    [][add =>
          /\ regs'[X] = (regs[X] + regs[Y]) % 256
          /\ regs'[15] = IF regs[X] + regs[Y] > 255 THEN 1 ELSE 0]_vars

\* C10: 8XY5 leaves VX = (VX - VY) mod 256 and VF = 1 iff VX >= VY; 8XY7
\* leaves VX = (VY - VX) mod 256 and VF = 1 iff VY >= VX.
C10_SubDifferenceAndBorrow ==
    [][/\ sub_xy =>
             /\ regs'[X] = (regs[X] - regs[Y]) % 256
             /\ regs'[15] = IF regs[X] >= regs[Y] THEN 1 ELSE 0
       /\ sub_yx =>
             /\ regs'[X] = (regs[Y] - regs[X]) % 256
             /\ regs'[15] = IF regs[Y] >= regs[X] THEN 1 ELSE 0]_vars

\* C11: 8XY6 leaves VF = the least-significant bit VX had and VX = VX >> 1;
\* 8XYE leaves VF = the most-significant bit VX had and VX = (VX << 1) mod
\* 256, on the values before the instruction.
C11_ShiftBitAndValue ==
    [][/\ right_shift =>
             /\ regs'[15] = regs[X] % 2
             /\ regs'[X] = regs[X] \div 2
       /\ left_shift =>
             /\ regs'[15] = regs[X] \div 128
             /\ regs'[X] = (regs[X] * 2) % 256]_vars

\* C12: 7XNN leaves VX = (VX + NN) mod 256 and every other register as it
\* was: VF is not written unless it is the VX of the instruction.
C12_ImmediateAddWraps ==
    [][add_immediate =>
          /\ regs'[X] = (regs[X] + (Fetched % 256)) % 256
          /\ \A r \in 0..(NUM_REGS - 1) : r # X => regs'[r] = regs[r]
          /\ pc' = pc + 2
          /\ ~panicked']_vars

\* 0xFF + 0x02 was added in V0 and left 0x01, with VF still 0.
C12_Witness ==
    /\ opcode = \h7002
    /\ mem[ROM_START] = \h60 /\ mem[ROM_START + 1] = \hFF
    /\ regs[0] = 1
    /\ regs[15] = 0
    /\ ~panicked

(***************************************************************************)
(* Timers.                                                                 *)
(***************************************************************************)
\* C13: a tick of update_timers decrements the delay timer and the sound
\* timer by 1 when positive and leaves a timer that is 0 at 0, so no tick
\* takes a timer to 255.
C13_TimersSaturate ==
    [][update_timers =>
          /\ delay_timer' = (IF delay_timer > 0 THEN delay_timer - 1 ELSE 0)
          /\ sound_timer' = (IF sound_timer > 0 THEN sound_timer - 1 ELSE 0)]_vars

\* The sound timer, set to 3 when the delay timer was at most 1, has been
\* ticked twice: the second tick found the delay timer at 0 and left it there.
C13_Witness ==
    /\ mem[ROM_START] = \h60 /\ mem[ROM_START + 1] = 1
    /\ mem[ROM_START + 2] = \hF0 /\ mem[ROM_START + 3] = \h15
    /\ opcode \in {\hF118, \h1208}
    /\ sound_timer = 1
    /\ delay_timer = 0

(***************************************************************************)
(* The draw instruction DXYN.                                              *)
(***************************************************************************)
\* The sprite rows DXYN reads are inside memory.
SpriteInMemory == i + lower_4_val(Fetched) <= MEM_SIZE

\* C14: DXYN completes normally for every value of VX and VY, also when
\* VX >= 64 or VY >= 32.
C14_DrawAcceptsAnyOrigin ==
    [][(draw_sprite /\ SpriteInMemory) => ~panicked']_vars

\* Whether bit c of sprite row r, for some r below the height and c in
\* 0..7, falls on display index p when columns wrap modulo 64 and rows
\* modulo 32 from the origin (VX mod 64, VY mod 32).
SpriteCovers(p) ==
    \E r \in 0..(lower_4_val(Fetched) - 1), c \in 0..7 :
        /\ p = coords_to_index((nibble2_reg + c) % GFX_COLS,
                               (nibble3_reg + r) % GFX_ROWS)
        /\ fetch_sprite_row(mem[i + r])[c]

\* C15: a draw XORs bit c of sprite row r into the pixel at column
\* (x + c) mod 64 and row (y + r) mod 32 and changes no other pixel.
C15_ToroidalWrap ==
    [][(draw_sprite /\ ~panicked') =>
          gfx' = [p \in 0..(GFX_SIZE - 1) |-> gfx[p] # SpriteCovers(p)]]_vars

\* C16: after a draw VF = 1 iff at least one display pixel changed from set
\* to unset during the draw, and VF = 0 otherwise.
C16_CollisionFlag ==
    [][(draw_sprite /\ ~panicked') =>
          regs'[15] = (IF \E p \in 0..(GFX_SIZE - 1) : gfx[p] /\ ~gfx'[p]
                       THEN 1 ELSE 0)]_vars

(***************************************************************************)
(* Decoding.                                                               *)
(***************************************************************************)
\* A cycle can fetch: the machine runs and pc, pc + 1 are inside memory.
CanFetch == loaded /\ ~panicked /\ FetchOk

\* The words that match no defined instruction pattern: 8XYN with N not in
\* {0..7, E}, 5XYN and 9XYN with N # 0, EXNN with NN not in {9E, A1}, FXNN
\* with NN not a defined code.
NoPattern(op) ==
    \/ op \div 4096 = 8 /\ (op % 16) \notin ((0..7) \cup {14})
    \/ op \div 4096 \in {5, 9} /\ op % 16 # 0
    \/ op \div 4096 = 14 /\ (op % 256) \notin {\h9E, \hA1}
    \/ op \div 4096 = 15 /\
          (op % 256) \notin {\h07, \h0A, \h15, \h18, \h1E, \h29, \h33, \h55, \h65}

\* C17: a cycle on a word that matches no defined instruction pattern fails
\* as an invalid opcode and changes no register, memory, display or stack
\* cell.
C17_NoPatternFails ==
    [][(CanFetch /\ NoPattern(Fetched) /\ perform_cycle) =>
          /\ panicked'
          /\ UNCHANGED <<regs, mem, gfx, stack, sp, i>>]_vars

\* C18: a cycle on a word 0x0NNN other than 0x00E0 and 0x00EE sets pc to NNN
\* and changes nothing else but the fetched opcode.
C18_ZeroFamilyJumps ==
    [][(CanFetch /\ Fetched < \h1000 /\ Fetched \notin {\h00E0, \h00EE}
            /\ perform_cycle) =>
          /\ pc' = Fetched
          /\ ~panicked'
          /\ UNCHANGED <<regs, mem, gfx, stack, sp, i, keys, delay_timer,
                         sound_timer, ignore_keypress>>]_vars

\* The word 0x0204 was executed and pc is 0x204, with V0 and I as set.
C18_Witness ==
    /\ opcode = \h0204
    /\ pc = \h204
    /\ regs[0] = 5
    /\ i = \h123
    /\ ~panicked

\* C19: after 3XNN, 4XNN, 5XY0 or 9XY0 pc is the instruction's address + 4
\* when the condition holds (VX = NN, VX # NN, VX = VY, VX # VY) and + 2
\* otherwise, and no register, memory or stack cell changes.
C19_SkipTargets ==
    [][/\ skip_if => pc' = pc + (IF regs[X] = Fetched % 256 THEN 4 ELSE 2)
       /\ skip_if_not => pc' = pc + (IF regs[X] # Fetched % 256 THEN 4 ELSE 2)
       /\ (skip_if_xy_eq /\ Fetched % 16 = 0) =>
             pc' = pc + (IF regs[X] = regs[Y] THEN 4 ELSE 2)
       /\ (skip_if_xy_neq /\ Fetched % 16 = 0) =>
             pc' = pc + (IF regs[X] # regs[Y] THEN 4 ELSE 2)
       /\ (skip_if \/ skip_if_not \/ skip_if_xy_eq \/ skip_if_xy_neq) =>
             UNCHANGED <<regs, mem, stack, sp>>]_vars

\* 9XY0 at 0x204 with V0 = 0 and V1 = 255 has skipped: pc is 0x208.
C19_Witness ==
    /\ opcode = \h9010
    /\ regs[0] = 0 /\ regs[1] = 255
    /\ pc = ROM_START + 8
    /\ ~panicked

(***************************************************************************)
(* BCD store FX33.                                                         *)
(***************************************************************************)
\* C20: with the three cells I..I+2 inside memory, FX33 leaves memory[I] =
\* v div 100, memory[I+1] = (v div 10) mod 10, memory[I+2] = v mod 10 for
\* the value v of VX, and changes no other memory cell, no register and
\* not I.
C20_BcdStore ==
    [][(store_bcd /\ i + 2 < MEM_SIZE) =>
          /\ mem'[i] = regs[X] \div 100
          /\ mem'[i + 1] = (regs[X] \div 10) % 10
          /\ mem'[i + 2] = regs[X] % 10
          /\ (100 * mem'[i]) + (10 * mem'[i + 1]) + mem'[i + 2] = regs[X]
          /\ \A a \in 0..(MEM_SIZE - 1) : a \notin i..(i + 2) => mem'[a] = mem[a]
          /\ UNCHANGED <<regs, i>>
          /\ ~panicked']_vars

\* 157 was stored at I = 0x300 as 1, 5, 7.
C20_Witness ==
    /\ opcode = \hF033
    /\ regs[0] = 157
    /\ i = \h300
    /\ mem[i] = 1 /\ mem[i + 1] = 5 /\ mem[i + 2] = 7
    /\ ~panicked

(***************************************************************************)
(* Register dump FX55 and load FX65.                                       *)
(***************************************************************************)
\* C21: with the cells I..I+X inside memory, FX55 writes V0..VX to
\* memory[I..I+X] and changes no other memory cell, no register and not I;
\* FX65 reads memory[I..I+X] into V0..VX and changes no register above VX,
\* no memory cell and not I; a load right after a dump with the same X
\* leaves V0..VX as they were.
C21_DumpAndLoad ==
    [][/\ (reg_dump /\ i + X < MEM_SIZE) =>
             /\ \A k \in 0..X : mem'[i + k] = regs[k]
             /\ \A a \in 0..(MEM_SIZE - 1) : a \notin i..(i + X) => mem'[a] = mem[a]
             /\ UNCHANGED <<regs, i>>
             /\ ~panicked'
       /\ (reg_load /\ i + X < MEM_SIZE) =>
             /\ \A k \in 0..X : regs'[k] = mem[i + k]
             /\ \A r \in 0..(NUM_REGS - 1) : r > X => regs'[r] = regs[r]
             /\ UNCHANGED <<mem, i>>
             /\ ~panicked'
       /\ (reg_load /\ i + X < MEM_SIZE /\ decode(opcode) = "reg_dump"
              /\ nibble2_usize(opcode) = X) =>
             \A k \in 0..X : regs'[k] = regs[k]]_vars

\* F255 and then F265 have run at I = 0x300: the three cells hold V0..V2,
\* the cell after them is untouched and the registers are as they were.
C21_Witness ==
    /\ opcode = \hF265
    /\ i = \h300
    /\ mem[ROM_START + 10] = \hF2 /\ mem[ROM_START + 11] = \h55
    /\ mem[i] = \h11 /\ mem[i + 1] = \h22 /\ mem[i + 2] = \h33 /\ mem[i + 3] = 0
    /\ regs[0] = \h11 /\ regs[1] = \h22 /\ regs[2] = \h33 /\ regs[15] = \h44
    /\ ~panicked

(***************************************************************************)
(* What changes the display, memory and the timers.                        *)
(***************************************************************************)
\* C22: the display buffer changes only in a step of the draw instruction
\* DXYN or of the clear instruction 00E0; every other instruction, a timer
\* tick, a key event and the program load leave all pixels as they were.
C22_DisplayWriters ==
    [][gfx' # gfx => (draw_sprite \/ clear_screen)]_vars

\* A sprite is on the display and, since it was drawn, other instructions
\* have run, a timer has ticked and a key has been pressed.
C22_Witness ==
    /\ \E p \in 0..(GFX_SIZE - 1) : gfx[p]
    /\ decode(opcode) = "subroutine_call"
    /\ keys[0]
    /\ delay_timer = 1
    /\ ~panicked

\* Byte k of the program image whose 16-bit words are rom, high byte first.
ImageByte(rom, k) ==
    IF k % 2 = 0 THEN rom[(k \div 2) + 1] \div 256 ELSE rom[(k \div 2) + 1] % 256

\* C23: load_rom puts image byte k at address 0x200 + k, zeros past the
\* program's length, and leaves every address below 0x200 as it was, the
\* 80 font bytes at 0x050..0x09F included.
C23_LoadRom ==
    [][\A rom \in RomsMain :
          load_rom(rom) =>
             /\ \A k \in 0..((2 * Len(rom)) - 1) :
                   mem'[ROM_START + k] = ImageByte(rom, k)
             /\ \A a \in (ROM_START + (2 * Len(rom)))..(MEM_SIZE - 1) : mem'[a] = 0
             /\ \A a \in 0..(ROM_START - 1) : mem'[a] = mem[a]
             /\ \A k \in 0..((FONT_NUM_ROWS * 16) - 1) :
                   mem'[FONT_LOC + k] = CHARS[k + 1]]_vars

\* The tour program has just been loaded: its first and last words are in
\* place, the byte after it is zero, and the glyphs 0 and F begin the font.
C23_Witness ==
    /\ loaded
    /\ opcode = 0 /\ pc = ROM_START
    /\ mem[ROM_START] = 0 /\ mem[ROM_START + 1] = \hE0
    /\ mem[ROM_START + 86] = \h80 /\ mem[ROM_START + 87] = \h08
    /\ mem[ROM_START + 88] = 0
    /\ mem[FONT_LOC] = \hF0 /\ mem[FONT_LOC + 79] = \h80

(***************************************************************************)
(* The key-wait latch.                                                     *)
(***************************************************************************)
\* Some pressed key has not been consumed by a key-wait since it was pressed.
UnconsumedKeyPressed ==
    \E k \in 0..(NUM_KEYS - 1) : keys[k] /\ khist[k] \in {"fresh", "repressed"}

\* C24: a cycle at a key-wait while some pressed key has not been consumed
\* since it was pressed completes the wait: pc advances past the
\* instruction and VX receives the lowest pressed key, also when another
\* key consumed earlier is still held.
C24_UnconsumedKeyCompletes ==
    [][(AtKeyWait /\ UnconsumedKeyPressed /\ perform_cycle) =>
          /\ pc' = pc + 2
          /\ regs'[X] = LowestPressed]_vars

(***************************************************************************)
(* What the draw instruction leaves alone.                                 *)
(***************************************************************************)
\* C25: DXYN changes only display pixels and VF: I, memory, the stack and
\* its pointer, the timers and every register other than VF are as before.
C25_DrawFrame ==
    [][draw_sprite =>
          /\ UNCHANGED <<i, mem, stack, sp, delay_timer, sound_timer>>
          /\ \A r \in 0..(NUM_REGS - 2) : regs'[r] = regs[r]]_vars

\* The sprite at origin (60, 31) was drawn a second time: it erased pixels,
\* VF is 1, and V0, V1 and I are as the program set them.
C25_Witness ==
    /\ decode(opcode) = "draw_sprite"
    /\ regs[15] = 1
    /\ regs[0] = 60 /\ regs[1] = 31
    /\ i = \h20A
    /\ pc = ROM_START + 10
    /\ ~panicked

(***************************************************************************)
(* Timers and the instruction cycle.                                       *)
(***************************************************************************)
TimerSetters == {"set_delay", "set_sound"}

\* C26: the delay and sound timers change only in update_timers, which the
\* driver calls at most once per loop iteration, and in the set-delay FX15
\* and set-sound FX18 instructions; a perform_cycle that executes any other
\* instruction leaves both timers unchanged.
C26_TimersOnlyTick ==
    [][/\ (delay_timer' # delay_timer \/ sound_timer' # sound_timer)
            => (update_timers \/ set_delay \/ set_sound)
       /\ update_timers => (~ticked /\ ticked')
       /\ (CanFetch /\ decode(Fetched) \notin TimerSetters /\ perform_cycle)
            => UNCHANGED <<delay_timer, sound_timer>>]_vars

\* The jump after FX15 and FX18 has run in an iteration without a tick, and
\* the timers, set to 1 and 3, still hold what the one tick before it left.
C26_Witness ==
    /\ opcode = \h1208
    /\ pc = \h208
    /\ delay_timer = 0
    /\ sound_timer = 2
    /\ ~ticked
    /\ ~panicked

(***************************************************************************)
(* The character lookup FX29.                                              *)
(***************************************************************************)
HexDigits == 0..15

\* C27: when VX holds a hex digit d in 0..F, FX29 leaves I = 0x050 + 5*d, so
\* that I..I+4 lies inside the font table 0x050..0x09F; apart from I and the
\* program counter moving to the next instruction, nothing changes.
C27_CharLookup ==
    [][(get_char /\ nibble2_reg \in HexDigits) =>
          /\ i' = \h050 + (5 * nibble2_reg)
          /\ i' >= \h050 /\ i' + 4 <= \h09F
          /\ pc' = pc + 2
          /\ ~panicked'
          /\ UNCHANGED <<mem, regs, gfx, stack, sp, keys, delay_timer,
                         sound_timer, ignore_keypress>>]_vars

\* The lookup of digit F in V5 has run: I is at the last glyph.
C27_Witness ==
    /\ opcode = \hF529
    /\ regs[5] = 15
    /\ i = \h09B
    /\ pc = ROM_START + 4
    /\ ~panicked

(***************************************************************************)
(* Rendering.                                                              *)
(***************************************************************************)
\* C28: after every perform_cycle that returns, just_drew is true exactly
\* when the instruction the cycle executed was a draw DXYN, and the driver
\* renders the window in exactly those loop iterations.
C28_JustDrew ==
    [][(run_cycle /\ ~panicked') =>
          /\ just_drew' <=> draw_sprite
          /\ rendered' <=> draw_sprite
          /\ rendered' => canvas' = draw']_vars

\* A draw has lit pixels and the iteration rendered them.
C28_Witness ==
    /\ just_drew
    /\ rendered
    /\ canvas # {}
    /\ canvas = draw
    /\ ~panicked

(***************************************************************************)
(* The ignore-keypress latch under the driver's key events.                *)
(***************************************************************************)
\* C29: in every reachable state, the ignore-keypress latch being set
\* implies that at least one key flag is set; so no key-wait stands blocked
\* by the latch while no key is held.
C29_LatchImpliesKeyHeld ==
    /\ ignore_keypress => ~NoKeyPressed
    /\ ~(AtIdleWait /\ ignore_keypress)

\* The machine stands at a key-wait with the latch set by the wait before
\* it, and key 1, which that wait consumed, is still held.
C29_Witness ==
    /\ AtKeyWait
    /\ ignore_keypress
    /\ PressedKeys = {1}
    /\ khist[1] = "consumed"
    /\ ~panicked

(***************************************************************************)
(* Memory addresses.                                                       *)
(***************************************************************************)
\* The cells other than the instruction word that the handler of the
\* fetched instruction reads or writes: sprite rows I..I+N-1 of a draw whose
\* origin is on the display, I..I+2 of a BCD store, I..I+X of a register
\* dump or load.
OperandCells ==
    IF decode(Fetched) = "draw_sprite"
    THEN IF nibble2_reg > GFX_COLS - 1 \/ nibble3_reg > GFX_ROWS - 1
         THEN {}
         ELSE { i + r : r \in 0..(lower_4_val(Fetched) - 1) }
    ELSE IF decode(Fetched) = "store_bcd" THEN { i, i + 1, i + 2 }
    ELSE IF decode(Fetched) \in {"reg_dump", "reg_load"}
         THEN { i + r : r \in 0..X }
    ELSE {}

\* C30: in every reachable state, every memory access the next instruction
\* cycle makes uses an address in 0x000..0xFFF: the fetch at pc and pc + 1,
\* the sprite rows at I + row, the BCD store at I..I+2 and the register dump
\* or load at I..I+X.
C30_MemoryAccessInRange ==
    (loaded /\ ~panicked) =>
        /\ pc \in 0..\hFFF
        /\ pc + 1 \in 0..\hFFF
        /\ FetchOk => OperandCells \subseteq 0..\hFFF

(***************************************************************************)
(* Drawing twice.                                                          *)
(***************************************************************************)
\* The draw about to run repeats the draw of the cycle before it: the same
\* instruction word, with X and Y other than F, directly after a draw that
\* returned.  I and memory are as that draw left them by C25.
RepeatsDraw ==
    /\ before_draw # NoDraw
    /\ before_draw.op = Fetched
    /\ X # 15 /\ Y # 15

\* C31: the same draw instruction DXYN executed twice in a row, with X and Y
\* other than F and the origin on the display, leaves the display exactly as
\* it was before the first of the two draws, for every origin and height,
\* sprites that cross the right or the bottom edge included.
C31_DrawTwiceRestores ==
    [][(draw_sprite /\ ~panicked' /\ RepeatsDraw) =>
          gfx' = before_draw.gfx]_vars

\* The second of two draws of 15 rows at (60, 30), where an earlier draw had
\* lit the first three rows of the same sprite, has run: the pixels of the
\* earlier draw are lit again, those that crossed the right edge included.
C31_Witness ==
    /\ opcode = \hD23F
    /\ pc = ROM_START + 16
    /\ regs[2] = 60 /\ regs[3] = 30
    /\ regs[0] = 60 /\ regs[1] = 30
    /\ regs[15] = 0
    /\ gfx[coords_to_index(60, 30)]
    /\ gfx[coords_to_index(0, 31)]
    /\ before_draw # NoDraw
    /\ ~panicked

(***************************************************************************)
(* The rendered frame.                                                     *)
(***************************************************************************)
\* C32: at the end of every loop iteration of the driver, whatever
\* instruction the iteration executed, the frame last rendered to the
\* window shows exactly the pixels set in the display buffer.
C32_FrameIsDisplay ==
    (loaded /\ ~panicked) => canvas = draw

=============================================================================
